---- MODULE Spec2Model ----
(***************************************************************************)
(* Key Dash Adventure: the gameplay runtime core.                          *)
(*   GameState (core/GameState.ts), EventBus (core/Events.ts), the level   *)
(*   table (config/levels.ts), HUD (ui/HUD.ts) and GameScene               *)
(*   (scenes/GameScene.ts).                                                *)
(*                                                                         *)
(* Spec      : a GameState driven by arbitrary calls of its operations.    *)
(* SceneSpec : the game as the scenes drive it, frame by frame.            *)
(* StoreSpec : a GameState and its reloads over a store of any content.    *)
(* BusSpec   : the EventBus driven by arbitrary subscribers.                *)
(* LevelSpec : the lookups of the level table, over a range of inputs.      *)
(* FallSpec  : one unpaused run of GameScene, its frames going on.         *)
(***************************************************************************)
EXTENDS Integers, Sequences, FiniteSets, TLC

VARIABLES
  gameState,       \* GameState fields: score, level, bestScoreValue, paused, hasGameEnded
  store,           \* localStorage item 'key-dash-adventure-best-score': <<>> or <<string>>
  listeners,       \* EventBus.listeners: event name -> sequence of handlers
  huds,            \* every HUD created so far: its two Text objects
  timers,          \* timer events of the GameScene clock, in creation order
  obstacles,       \* children of GameScene.obstacles
  coins,           \* children of GameScene.coins
  physicsPaused,   \* arcade world paused (physics.pause / physics.resume)
  scene,           \* the running scene
  crashed,         \* an exception left the game step
  emitted,         \* events emitted by the last operation, in order
  called,          \* what each subscriber called by the last operation saw, in order
  lastOp,          \* the last operation and its inputs
  levelConfig,     \* the tier the last operation, a getLevelConfig, returned
  runGameOvers,    \* game-over events emitted since the last initialize/reset
  priorGameOvers,  \* a game-over event was emitted before the last initialize/reset
  streak,          \* length of the current series of consecutive gameOver calls
  streakEmits,     \* game-over events emitted during that series
  streakFresh,     \* the series began in a run that had not ended
  bestBeforeRun,   \* the best score GameState held when the last GameScene.create began
  watched          \* the obstacle or coin that is followed until it is removed, if any

vars == << gameState, store, listeners, huds, timers, obstacles, coins,
           physicsPaused, scene, crashed, emitted, called, lastOp, levelConfig,
           runGameOvers, priorGameOvers, streak, streakEmits, streakFresh,
           bestBeforeRun, watched >>

----------------------------------------------------------------------------
(* Bounds of the model *)

MaxScore == 30
MaxDebt == 5
MaxLevel == 3
MaxStreak == 3
MaxRuns == 2
MaxEntities == 2
MaxDelayed == 2
MaxRunScore == 50
StepMs == 3000
MaxLookupScore == 400
MaxBelow == 10
MaxBeyond == 8
MaxListeners == 3

Points == {-5, 10}
ScoreValues == {0, 20}
LevelValues == {1, 2, 3}

Max(a, b) == IF a >= b THEN a ELSE b
Min(a, b) == IF a <= b THEN a ELSE b

----------------------------------------------------------------------------
(* Strings are sequences of characters: Number.prototype.toString and      *)
(* parseInt(s, 10).                                                        *)

Digits == << "0", "1", "2", "3", "4", "5", "6", "7", "8", "9" >>

IsDigit(c) == \E d \in 1..10 : Digits[d] = c

DigitValue(c) == (CHOOSE d \in 1..10 : Digits[d] = c) - 1

Whitespace == {" ", "\t", "\n"}

RECURSIVE NatToString(_)
NatToString(n) ==
  IF n < 10 THEN << Digits[n + 1] >>
  ELSE NatToString(n \div 10) \o << Digits[(n % 10) + 1] >>

toString(n) == IF n < 0 THEN << "-" >> \o NatToString(-n) ELSE NatToString(n)

NaN == [nan |-> TRUE, val |-> 0]

RECURSIVE SkipWhitespace(_)
SkipWhitespace(s) ==
  IF s # << >> /\ Head(s) \in Whitespace THEN SkipWhitespace(Tail(s)) ELSE s

RECURSIVE ParseDigits(_, _)
ParseDigits(s, acc) ==
  IF s # << >> /\ IsDigit(Head(s))
  THEN ParseDigits(Tail(s), acc * 10 + DigitValue(Head(s)))
  ELSE acc

parseInt(str) ==
  LET s    == SkipWhitespace(str)
      neg  == s # << >> /\ Head(s) = "-"
      body == IF s # << >> /\ Head(s) \in {"-", "+"} THEN Tail(s) ELSE s
  IN  IF body = << >> \/ ~IsDigit(Head(body)) THEN NaN
      ELSE [nan |-> FALSE,
            val |-> IF neg THEN 0 - ParseDigits(body, 0) ELSE ParseDigits(body, 0)]

----------------------------------------------------------------------------
(* config/levels.ts; spawn chances are kept in hundredths *)

LEVELS == <<
  [level |-> 1, requiredScore |-> 0,    obstacleSpawnInterval |-> 2000, obstacleSpeed |-> 100,
   coinSpawnInterval |-> 3000, coinSpeed |-> 80,  obstacleSpawnChance |-> 70, coinSpawnChance |-> 80],
  [level |-> 2, requiredScore |-> 50,   obstacleSpawnInterval |-> 1800, obstacleSpeed |-> 120,
   coinSpawnInterval |-> 2800, coinSpeed |-> 90,  obstacleSpawnChance |-> 75, coinSpawnChance |-> 75],
  [level |-> 3, requiredScore |-> 150,  obstacleSpawnInterval |-> 1600, obstacleSpeed |-> 140,
   coinSpawnInterval |-> 2600, coinSpeed |-> 100, obstacleSpawnChance |-> 80, coinSpawnChance |-> 70],
  [level |-> 4, requiredScore |-> 300,  obstacleSpawnInterval |-> 1400, obstacleSpeed |-> 160,
   coinSpawnInterval |-> 2400, coinSpeed |-> 110, obstacleSpawnChance |-> 85, coinSpawnChance |-> 65],
  [level |-> 5, requiredScore |-> 500,  obstacleSpawnInterval |-> 1200, obstacleSpeed |-> 180,
   coinSpawnInterval |-> 2200, coinSpeed |-> 120, obstacleSpawnChance |-> 90, coinSpawnChance |-> 60],
  [level |-> 6, requiredScore |-> 750,  obstacleSpawnInterval |-> 1000, obstacleSpeed |-> 200,
   coinSpawnInterval |-> 2000, coinSpeed |-> 130, obstacleSpawnChance |-> 92, coinSpawnChance |-> 55],
  [level |-> 7, requiredScore |-> 1000, obstacleSpawnInterval |-> 900,  obstacleSpeed |-> 220,
   coinSpawnInterval |-> 1900, coinSpeed |-> 140, obstacleSpawnChance |-> 94, coinSpawnChance |-> 50],
  [level |-> 8, requiredScore |-> 1500, obstacleSpawnInterval |-> 800,  obstacleSpeed |-> 240,
   coinSpawnInterval |-> 1800, coinSpeed |-> 150, obstacleSpawnChance |-> 95, coinSpawnChance |-> 45] >>

\* LEVELS[level - 1] of an index outside the array
undefinedConfig ==
  [level |-> 0, requiredScore |-> 0, obstacleSpawnInterval |-> 0, obstacleSpeed |-> 0,
   coinSpawnInterval |-> 0, coinSpeed |-> 0, obstacleSpawnChance |-> 0, coinSpawnChance |-> 0,
   undefined |-> TRUE]

Defined(cfg) == [level |-> cfg.level, requiredScore |-> cfg.requiredScore,
   obstacleSpawnInterval |-> cfg.obstacleSpawnInterval, obstacleSpeed |-> cfg.obstacleSpeed,
   coinSpawnInterval |-> cfg.coinSpawnInterval, coinSpeed |-> cfg.coinSpeed,
   obstacleSpawnChance |-> cfg.obstacleSpawnChance, coinSpawnChance |-> cfg.coinSpawnChance,
   undefined |-> FALSE]

\* a level beyond the table gets the last tier of the table
getLevelConfig_clamps(level) ==
  IF level > Len(LEVELS) THEN Defined(LEVELS[Len(LEVELS)])
  ELSE IF level >= 1 THEN Defined(LEVELS[level]) ELSE undefinedConfig

\* the obstacle chance of a level beyond the table has no upper limit
getLevelConfig_uncapped(level) ==
  IF level > Len(LEVELS)
  THEN LET lastLevel == LEVELS[Len(LEVELS)]
           extra     == level - Len(LEVELS)
       IN  Defined([lastLevel EXCEPT
             !.level = level,
             !.requiredScore = lastLevel.requiredScore + extra * 500,
             !.obstacleSpawnInterval = Max(500, lastLevel.obstacleSpawnInterval - extra * 50),
             !.obstacleSpeed = lastLevel.obstacleSpeed + extra * 20,
             !.obstacleSpawnChance = lastLevel.obstacleSpawnChance + extra * 1])
  ELSE IF level >= 1 THEN Defined(LEVELS[level]) ELSE undefinedConfig

getLevelConfig(level) ==
  IF level > Len(LEVELS)
  THEN LET lastLevel == LEVELS[Len(LEVELS)]
           extra     == level - Len(LEVELS)
       IN  Defined([lastLevel EXCEPT
             !.level = level,
             !.requiredScore = lastLevel.requiredScore + extra * 500,
             !.obstacleSpawnInterval = Max(500, lastLevel.obstacleSpawnInterval - extra * 50),
             !.obstacleSpeed = lastLevel.obstacleSpeed + extra * 20,
             !.obstacleSpawnChance = Min(98, lastLevel.obstacleSpawnChance + extra * 1)])
  ELSE IF level >= 1 THEN Defined(LEVELS[level]) ELSE undefinedConfig

\* a score exactly on a threshold does not reach that level
RECURSIVE LevelScan_strict(_, _)
LevelScan_strict(score, i) ==
  IF i < 1 THEN 1
  ELSE IF score > LEVELS[i].requiredScore THEN LEVELS[i].level
  ELSE LevelScan_strict(score, i - 1)

\* the comparison with the threshold is the wrong way round
RECURSIVE LevelScan_flipped(_, _)
LevelScan_flipped(score, i) ==
  IF i < 1 THEN 1
  ELSE IF score <= LEVELS[i].requiredScore THEN LEVELS[i].level
  ELSE LevelScan_flipped(score, i - 1)

RECURSIVE LevelScan(_, _)
LevelScan(score, i) ==
  IF i < 1 THEN 1
  ELSE IF score >= LEVELS[i].requiredScore THEN LEVELS[i].level
  ELSE LevelScan(score, i - 1)

getLevelForScore(score) == LevelScan(score, Len(LEVELS))

----------------------------------------------------------------------------
(* GameEvents *)

SCORE_CHANGED == "score-changed"
LEVEL_CHANGED == "level-changed"
GAME_OVER     == "game-over"
GAME_PAUSED   == "game-paused"
GAME_RESUMED  == "game-resumed"
COIN_COLLECTED == "coin-collected"
PLAYER_HIT    == "player-hit"

GameEvents == { SCORE_CHANGED, LEVEL_CHANGED, GAME_OVER, GAME_PAUSED,
                GAME_RESUMED, COIN_COLLECTED, PLAYER_HIT }

----------------------------------------------------------------------------
(* The operations below are functions of a record w holding the objects a  *)
(* call can reach: w.gs (GameState), w.store and w.storeOk (localStorage   *)
(* and whether its calls succeed), w.listeners (EventBus), w.huds,         *)
(* w.timers, w.coins, w.log (events emitted so far in this call), w.calls   *)
(* (what the subscribers called so far in this call saw) and w.thrown (an  *)
(* exception is propagating, so the rest of the call chain is skipped).    *)

ScoreLabel(score) == << "Score: " >> \o toString(score)
LevelLabel(level) == << "Level: " >> \o toString(level)

\* Phaser Text.setText: nothing happens when the value is unchanged;
\* otherwise the text is stored and redrawn, and redrawing a Text that was
\* destroyed with its scene throws a TypeError.
setText(text, value) ==
  IF value = text.text THEN [obj |-> text, throws |-> FALSE]
  ELSE [obj |-> [text EXCEPT !.text = value], throws |-> text.destroyed]

HUDupdateScore(w, id, score) ==
  LET r == setText(w.huds[id].scoreText, ScoreLabel(score))
  IN  [w EXCEPT !.huds[id].scoreText = r.obj, !.thrown = r.throws]

\* the level text is left as it was created
HUDupdateLevel_ignores(w, id, level) == w

HUDupdateLevel(w, id, level) ==
  LET r == setText(w.huds[id].levelText, LevelLabel(level))
  IN  [w EXCEPT !.huds[id].levelText = r.obj, !.thrown = r.throws]

\* Clock.addEvent for the timer kept in this.obstacleTimer / this.coinTimer:
\* the timer the field referred to before is no longer referenced.
addHeldTimer(w, timer) ==
  [w EXCEPT !.timers =
     Append([i \in DOMAIN w.timers |->
               IF w.timers[i].kind = timer.kind
               THEN [w.timers[i] EXCEPT !.held = FALSE] ELSE w.timers[i]],
            timer)]

\* this.obstacleTimer?.remove() / this.coinTimer?.remove()
removeHeldTimer(w, kind) ==
  [w EXCEPT !.timers =
     SelectSeq(w.timers, LAMBDA t : ~(t.kind = kind /\ t.held))]

\* the obstacle timer spawns with the speed of the coins
obstacleTimerFor_coinSpeed(config) ==
  [kind |-> "obstacle", delay |-> config.obstacleSpawnInterval,
   speed |-> config.coinSpeed, chance |-> config.obstacleSpawnChance, held |-> TRUE]

obstacleTimerFor(config) ==
  [kind |-> "obstacle", delay |-> config.obstacleSpawnInterval,
   speed |-> config.obstacleSpeed, chance |-> config.obstacleSpawnChance, held |-> TRUE]

coinTimerFor(config) ==
  [kind |-> "coin", delay |-> config.coinSpawnInterval,
   speed |-> config.coinSpeed, chance |-> config.coinSpawnChance, held |-> TRUE]

RECURSIVE emit(_, _, _)
RECURSIVE forEach(_, _, _, _, _)
RECURSIVE callHandler(_, _, _)
RECURSIVE setLevel(_, _)
RECURSIVE advanceLevel(_, _)
RECURSIVE checkLevelAdvancement(_)

\* EventBus.on: listeners.get(event).push(callback), no check for a callback
\* that is registered already
on(w, event, callback) == [w EXCEPT !.listeners[event] = Append(@, callback)]

\* Array.prototype.indexOf: the first index that holds the element, 0 for none
indexOf(callbacks, callback) ==
  IF \E i \in DOMAIN callbacks : callbacks[i] = callback
  THEN CHOOSE i \in DOMAIN callbacks :
         /\ callbacks[i] = callback
         /\ \A j \in 1..(i - 1) : callbacks[j] # callback
  ELSE 0

\* Array.prototype.splice(index, 1)
splice(callbacks, index) ==
  SubSeq(callbacks, 1, index - 1) \o SubSeq(callbacks, index + 1, Len(callbacks))

\* every registration of the handler is removed
off_removesAll(w, event, callback) ==
  [w EXCEPT !.listeners[event] = SelectSeq(@, LAMBDA c : c # callback)]

off(w, event, callback) ==
  LET index == indexOf(w.listeners[event], callback)
  IN  IF index # 0 THEN [w EXCEPT !.listeners[event] = splice(@, index)] ELSE w

\* EventBus.clear
clear(w) == [w EXCEPT !.listeners = [e \in DOMAIN @ |-> << >>]]

\* The subscribers a caller may hand to on(): an observer only looks, a
\* once-handler unsubscribes itself when it is called, a remover unsubscribes
\* the observer of its own number.  Each was written for PLAYER_HIT.
Observer(id) == [kind |-> "observer", id |-> id]
Once(id)     == [kind |-> "once", id |-> id]
Remover(id)  == [kind |-> "remover", id |-> id]

\* what a subscriber sees when it is called
observe(w, handler, data) ==
  [w EXCEPT !.calls = Append(@, [handler |-> handler, data |-> data,
                                 bestScore |-> w.gs.bestScoreValue,
                                 store |-> w.store])]

\* EventBus.emit: callbacks.forEach(callback => callback(data))
emit(w, event, data) ==
  LET w1 == [w EXCEPT !.log = Append(@, [type |-> event, data |-> data])]
  IN  forEach(w1, event, 1, Len(w1.listeners[event]), data)

\* Array.prototype.forEach: indices 1..len of the array as it is when each
\* index is reached
forEach(w, event, k, len, data) ==
  IF w.thrown \/ k > len THEN w
  ELSE IF k > Len(w.listeners[event]) THEN forEach(w, event, k + 1, len, data)
  ELSE forEach(callHandler(w, w.listeners[event][k], data), event, k + 1, len, data)

callHandler(w, handler, data) ==
  CASE handler.kind = "hudScore"   -> HUDupdateScore(w, handler.id, data[1])
    [] handler.kind = "hudLevel"   -> HUDupdateLevel(w, handler.id, data[1])
    [] handler.kind = "checkLevel" -> checkLevelAdvancement(w)
    [] handler.kind = "observer"   -> observe(w, handler, data)
    [] handler.kind = "once"       -> off(observe(w, handler, data), PLAYER_HIT, handler)
    [] handler.kind = "remover"    -> off(observe(w, handler, data), PLAYER_HIT,
                                          Observer(handler.id))

\* a level number outside the table is moved into it
setLevel_clamps(w, level) ==
  LET n == Max(1, Min(Len(LEVELS), level))
  IN  emit([w EXCEPT !.gs.level = n], LEVEL_CHANGED, << n >>)

setLevel(w, level) ==
  emit([w EXCEPT !.gs.level = level], LEVEL_CHANGED, << level >>)

\* the next level starts from a score of 0
nextLevel_restartsScore(w) == setLevel([w EXCEPT !.gs.score = 0], w.gs.level + 1)

nextLevel(w) == setLevel(w, w.gs.level + 1)

\* the coins there are take the speed of the new tier
advanceLevel_speedsUp(w, newLevel) ==
  LET w1     == setLevel(w, newLevel)
      config == getLevelConfig(newLevel)
      w2     == removeHeldTimer(removeHeldTimer(w1, "obstacle"), "coin")
      w3     == [w2 EXCEPT !.coins = [i \in DOMAIN @ |-> [@[i] EXCEPT !.speed = config.coinSpeed]]]
  IN  IF w1.thrown THEN w1
      ELSE addHeldTimer(addHeldTimer(w3, obstacleTimerFor(config)), coinTimerFor(config))

\* the timers of the previous tier are not removed
advanceLevel_keepsTimers(w, newLevel) ==
  LET w1     == setLevel(w, newLevel)
      config == getLevelConfig(newLevel)
  IN  IF w1.thrown THEN w1
      ELSE addHeldTimer(addHeldTimer(w1, obstacleTimerFor(config)), coinTimerFor(config))

advanceLevel(w, newLevel) ==
  LET w1     == setLevel(w, newLevel)
      config == getLevelConfig(newLevel)
      w2     == removeHeldTimer(removeHeldTimer(w1, "obstacle"), "coin")
  IN  IF w1.thrown THEN w1
      ELSE addHeldTimer(addHeldTimer(w2, obstacleTimerFor(config)), coinTimerFor(config))

\* the comparison is the wrong way round, so the level never advances
checkLevelAdvancement_never(w) ==
  LET currentScore  == w.gs.score
      expectedLevel == getLevelForScore(currentScore)
  IN  IF expectedLevel < w.gs.level THEN advanceLevel(w, expectedLevel) ELSE w

checkLevelAdvancement(w) ==
  LET currentScore  == w.gs.score
      expectedLevel == getLevelForScore(currentScore)
  IN  IF expectedLevel > w.gs.level THEN advanceLevel(w, expectedLevel) ELSE w

\* the failure of localStorage.setItem is not caught
saveBestScore_propagates(w) ==
  IF w.storeOk THEN [w EXCEPT !.store = << toString(w.gs.bestScoreValue) >>]
  ELSE [w EXCEPT !.thrown = TRUE]

saveBestScore(w) ==
  IF w.storeOk THEN [w EXCEPT !.store = << toString(w.gs.bestScoreValue) >>] ELSE w

\* the best score is left to lag behind the score
updateBestScoreFromCurrent_lagging(w) == w

\* the new best score is kept in memory only
updateBestScoreFromCurrent_unsaved(w) ==
  IF w.gs.score > w.gs.bestScoreValue
  THEN [w EXCEPT !.gs.bestScoreValue = w.gs.score]
  ELSE w

updateBestScoreFromCurrent(w) ==
  IF w.gs.score > w.gs.bestScoreValue
  THEN saveBestScore([w EXCEPT !.gs.bestScoreValue = w.gs.score])
  ELSE w

loadBestScore(w) ==
  IF ~w.storeOk THEN [w EXCEPT !.gs.bestScoreValue = 0]
  ELSE LET stored == w.store
           parsed == IF stored # << >> /\ stored[1] # << >>
                     THEN parseInt(stored[1]) ELSE [nan |-> FALSE, val |-> 0]
       IN  [w EXCEPT !.gs.bestScoreValue = IF parsed.nan THEN 0 ELSE parsed.val]

\* a new run re-reads the best score from the store
initialize_reloadsBest(w, startingLevel) ==
  loadBestScore([w EXCEPT !.gs.score = 0, !.gs.level = startingLevel,
                          !.gs.paused = FALSE, !.gs.hasGameEnded = FALSE])

\* a new run does not clear the end-of-run flag
initialize_keepsEnded(w, startingLevel) ==
  [w EXCEPT !.gs.score = 0, !.gs.level = startingLevel, !.gs.paused = FALSE]

\* the starting level is set through setLevel, which announces it
initialize_announces(w, startingLevel) ==
  setLevel([w EXCEPT !.gs.score = 0, !.gs.paused = FALSE, !.gs.hasGameEnded = FALSE],
           startingLevel)

initialize(w, startingLevel) ==
  [w EXCEPT !.gs.score = 0, !.gs.level = startingLevel,
            !.gs.paused = FALSE, !.gs.hasGameEnded = FALSE]

\* the best score is cleared in memory only
reset_keepsStored(w, clearBestScore) ==
  LET w1 == initialize(w, 1)
  IN  IF clearBestScore THEN [w1 EXCEPT !.gs.bestScoreValue = 0] ELSE w1

reset(w, clearBestScore) ==
  LET w1 == initialize(w, 1)
  IN  IF clearBestScore
      THEN [w1 EXCEPT !.gs.bestScoreValue = 0,
                      !.store = IF w.storeOk THEN << >> ELSE @]
      ELSE w1

\* the event is emitted before the best score is brought up to the score
addScore_emitsFirst(w, points) ==
  LET w1 == [w EXCEPT !.gs.score = @ + points]
      w2 == emit(w1, SCORE_CHANGED, << w1.gs.score >>)
  IN  IF w2.thrown THEN w2 ELSE updateBestScoreFromCurrent(w2)

\* points are clamped so that the score cannot fall
addScore_neverDeducts(w, points) ==
  LET w1 == updateBestScoreFromCurrent([w EXCEPT !.gs.score = @ + Max(points, 0)])
  IN  emit(w1, SCORE_CHANGED, << w1.gs.score >>)

addScore(w, points) ==
  LET w1 == updateBestScoreFromCurrent([w EXCEPT !.gs.score = @ + points])
  IN  emit(w1, SCORE_CHANGED, << w1.gs.score >>)

updateScore(w, points) == addScore(w, points)

setScore(w, score) ==
  LET w1 == updateBestScoreFromCurrent([w EXCEPT !.gs.score = score])
  IN  emit(w1, SCORE_CHANGED, << w1.gs.score >>)

\* the event is chosen by the flag as it was before the call
togglePause_announcesBefore(w) ==
  LET w1 == [w EXCEPT !.gs.paused = ~@]
  IN  emit(w1, IF w.gs.paused THEN GAME_PAUSED ELSE GAME_RESUMED, << >>)

togglePause(w) ==
  LET w1 == [w EXCEPT !.gs.paused = ~@]
  IN  emit(w1, IF w1.gs.paused THEN GAME_PAUSED ELSE GAME_RESUMED, << >>)

\* the new best score is written to the store after the event is emitted
gameOver_savesLate(w) ==
  IF w.gs.hasGameEnded THEN w
  ELSE LET best == Max(w.gs.bestScoreValue, w.gs.score)
           w1   == [w EXCEPT !.gs.hasGameEnded = TRUE, !.gs.paused = TRUE,
                             !.gs.bestScoreValue = best]
           w2   == emit(w1, GAME_OVER, << w1.gs.score, best >>)
       IN  IF w.gs.score > w.gs.bestScoreValue THEN saveBestScore(w2) ELSE w2

\* the hasGameEnded guard is missing
gameOver_unguarded(w) ==
  LET w1 == updateBestScoreFromCurrent(
              [w EXCEPT !.gs.hasGameEnded = TRUE, !.gs.paused = TRUE])
  IN  emit(w1, GAME_OVER, << w1.gs.score, w1.gs.bestScoreValue >>)

gameOver(w) ==
  IF w.gs.hasGameEnded THEN w
  ELSE LET w1 == updateBestScoreFromCurrent(
                   [w EXCEPT !.gs.hasGameEnded = TRUE, !.gs.paused = TRUE])
       IN  emit(w1, GAME_OVER, << w1.gs.score, w1.gs.bestScoreValue >>)

\* new GameState(): field initialisers, then loadBestScore()
newGameState(w) ==
  loadBestScore([w EXCEPT !.gs = [score |-> 0, level |-> 1, bestScoreValue |-> 0,
                                  paused |-> FALSE, hasGameEnded |-> FALSE]])

----------------------------------------------------------------------------
(* State, and what every action does with the result of a call *)

World(storeOk) ==
  [gs |-> gameState, store |-> store, storeOk |-> storeOk, listeners |-> listeners,
   huds |-> huds, timers |-> timers, coins |-> coins, log |-> << >>, calls |-> << >>,
   thrown |-> FALSE]

RECURSIVE Count(_, _)
Count(log, type) ==
  IF log = << >> THEN 0
  ELSE (IF Head(log).type = type THEN 1 ELSE 0) + Count(Tail(log), type)

FirstOf(log, type) == log[CHOOSE i \in DOMAIN log :
                            /\ log[i].type = type
                            /\ \A j \in 1..(i - 1) : log[j].type # type]

Op(name, arg, n) == [name |-> name, arg |-> arg, n |-> n]

StartsRun(op) == op.name \in {"initialize", "reset", "create", "construct"}

\* the new state: the objects as the call left them, and the record of what
\* the call was and what it emitted
Commit(w, op) ==
  LET gameOvers == Count(w.log, GAME_OVER)
  IN  /\ gameState' = w.gs
      /\ store' = w.store
      /\ listeners' = w.listeners
      /\ huds' = w.huds
      /\ timers' = w.timers
      /\ coins' = w.coins
      /\ crashed' = w.thrown
      /\ emitted' = w.log
      /\ called' = w.calls
      /\ lastOp' = op
      /\ levelConfig' = << >>
      /\ runGameOvers' = (IF StartsRun(op) THEN 0 ELSE runGameOvers) + gameOvers
      /\ priorGameOvers' = (priorGameOvers \/ (StartsRun(op) /\ runGameOvers > 0))
      /\ streak' = IF op.name = "gameOver" THEN streak + 1 ELSE 0
      /\ streakEmits' = IF op.name = "gameOver"
                        THEN (IF streak = 0 THEN 0 ELSE streakEmits) + gameOvers
                        ELSE 0
      /\ streakFresh' = IF op.name = "gameOver"
                        THEN (IF streak = 0 THEN ~gameState.hasGameEnded ELSE streakFresh)
                        ELSE FALSE
      /\ bestBeforeRun' = IF op.name = "create" THEN gameState.bestScoreValue
                          ELSE bestBeforeRun

NoListeners == [e \in GameEvents |-> << >>]

NoGame == /\ huds = << >> /\ timers = << >> /\ obstacles = << >> /\ coins = << >>
          /\ physicsPaused = FALSE /\ crashed = FALSE

\* no entity is followed
NoWatch == [kind |-> "none", index |-> 0]

NoHistory == /\ emitted = << >> /\ called = << >> /\ lastOp = Op("new", 0, 0)
             /\ levelConfig = << >>
             /\ runGameOvers = 0 /\ priorGameOvers = FALSE
             /\ streak = 0 /\ streakEmits = 0 /\ streakFresh = FALSE
             /\ bestBeforeRun = 0
             /\ watched = NoWatch

EmptyWorld(storeOk) ==
  [gs |-> [score |-> 0, level |-> 1, bestScoreValue |-> 0,
           paused |-> FALSE, hasGameEnded |-> FALSE],
   store |-> << >>, storeOk |-> storeOk, listeners |-> NoListeners,
   huds |-> << >>, timers |-> << >>, coins |-> << >>, log |-> << >>,
   calls |-> << >>, thrown |-> FALSE]

----------------------------------------------------------------------------
(* Spec: one GameState, constructed over an empty store, and its callers *)

Init ==
  /\ store = << >>
  /\ \E storeOk \in BOOLEAN : gameState = newGameState(EmptyWorld(storeOk)).gs
  /\ listeners = NoListeners
  /\ scene = "none"
  /\ NoGame
  /\ NoHistory

SceneUnchanged == UNCHANGED << obstacles, physicsPaused, scene, watched >>

InScoreRange(s) == 0 - MaxDebt <= s /\ s <= MaxScore

AddScore ==
  \E points \in Points, storeOk \in BOOLEAN :
    /\ InScoreRange(gameState.score + points)
    /\ Commit(addScore(World(storeOk), points), Op("addScore", points, 0))
    /\ SceneUnchanged

UpdateScore ==
  \E points \in Points, storeOk \in BOOLEAN :
    /\ InScoreRange(gameState.score + points)
    /\ Commit(updateScore(World(storeOk), points), Op("updateScore", points, 0))
    /\ SceneUnchanged

SetScore ==
  \E score \in ScoreValues, storeOk \in BOOLEAN :
    /\ Commit(setScore(World(storeOk), score), Op("setScore", score, 0))
    /\ SceneUnchanged

NextLevel ==
  /\ gameState.level < MaxLevel
  /\ Commit(nextLevel(World(TRUE)), Op("nextLevel", 0, 0))
  /\ SceneUnchanged

SetLevel ==
  \E level \in LevelValues :
    /\ Commit(setLevel(World(TRUE), level), Op("setLevel", level, 0))
    /\ SceneUnchanged

TogglePause ==
  /\ Commit(togglePause(World(TRUE)), Op("togglePause", 0, 0))
  /\ SceneUnchanged

GameOver ==
  \E storeOk \in BOOLEAN :
    /\ streak < MaxStreak
    /\ Commit(gameOver(World(storeOk)), Op("gameOver", 0, 0))
    /\ SceneUnchanged

Initialize ==
  \E startingLevel \in LevelValues :
    /\ Commit(initialize(World(TRUE), startingLevel), Op("initialize", startingLevel, 0))
    /\ SceneUnchanged

Reset ==
  \E clearBestScore \in BOOLEAN, storeOk \in BOOLEAN :
    /\ Commit(reset(World(storeOk), clearBestScore),
              Op("reset", IF clearBestScore THEN 1 ELSE 0, 0))
    /\ SceneUnchanged

Next ==
  \/ AddScore
  \/ UpdateScore
  \/ SetScore
  \/ NextLevel
  \/ SetLevel
  \/ TogglePause
  \/ GameOver
  \/ Initialize
  \/ Reset

Spec == Init /\ [][Next]_vars

----------------------------------------------------------------------------
(* GameScene, HUD and the frame loop that drives them *)

FieldWidth  == 800
FieldHeight == 600
SpawnY      == -50
CoinValue   == 10

\* Phaser.Math.Between(50, width - 50): the ends of the range
SpawnXs == {50, FieldWidth - 50}

\* Math.random(), in hundredths
RandomDraws == {70, 81}

\* an arcade body moves by velocity * elapsed time in one world step; a step
\* of the model stands for StepMs of play, in which a timer, a tween or a
\* delayed call may or may not have come due
\* entities do not move
Fall_still(entity) == entity

Fall(entity) == [entity EXCEPT !.y = @ + (entity.speed * StepMs) \div 1000]

\* Coin.update / Obstacle.update: this.y > this.scene.cameras.main.height + 50
\* the followed entity after the entities of its group at the indices
\* removed have been destroyed: the others keep their order
Survivor(follow, kind, removed) ==
  IF follow.kind # kind THEN follow
  ELSE IF follow.index \in removed THEN NoWatch
  ELSE [follow EXCEPT !.index = @ - Cardinality({k \in removed : k < follow.index})]

OffScreen(entity) == entity.y > FieldHeight + 50

\* the avatar collides with the world bounds, so only an entity inside the
\* field can overlap it; which of those do depends on where the avatar is and
\* on the x they were spawned at, which an entity of the model does not keep
CanOverlap(entity) == entity.y >= 0 /\ entity.y <= FieldHeight

newText(value) == [text |-> value, destroyed |-> FALSE]

\* new HUD(scene): create() then setupListeners()
newHUD(w) ==
  LET id == Len(w.huds) + 1
  IN  [w EXCEPT
        !.huds = Append(@, [scoreText |-> newText(ScoreLabel(w.gs.score)),
                            levelText |-> newText(LevelLabel(w.gs.level))]),
        !.listeners[SCORE_CHANGED] = Append(@, [kind |-> "hudScore", id |-> id]),
        !.listeners[LEVEL_CHANGED] = Append(@, [kind |-> "hudLevel", id |-> id])]

setupSpawning(w) ==
  LET config == getLevelConfig(w.gs.level)
  IN  addHeldTimer(addHeldTimer(w, obstacleTimerFor(config)), coinTimerFor(config))

\* GameScene.create; run is the number of this run, which tells the
\* function made by this bind() from those of earlier runs
create(w, run) ==
  LET w1 == reset(w, FALSE)
      w2 == setupSpawning(newHUD(w1))
  IN  [w2 EXCEPT !.listeners[SCORE_CHANGED] =
                    Append(@, [kind |-> "checkLevel", id |-> run])]

\* GameScene.shutdown, if the scene's shutdown runs it at all: off() with
\* the function a new bind() makes, which is none of those registered
shutdown(w) == off(w, SCORE_CHANGED, [kind |-> "checkLevel", id |-> 0])

delayedGameOverScene ==
  [kind |-> "gameOverScene", delay |-> 500, speed |-> 0, chance |-> 0, held |-> FALSE]

\* every collision announces the end of the run
handleObstacleCollision_announces(w) ==
  LET w1 == gameOver(w)
      w2 == IF w.gs.hasGameEnded
            THEN emit(w1, GAME_OVER, << w1.gs.score, w1.gs.bestScoreValue >>)
            ELSE w1
  IN  IF w2.thrown THEN w2
      ELSE [w2 EXCEPT !.timers = Append(@, delayedGameOverScene)]

handleObstacleCollision(w) ==
  LET w1 == gameOver(w)
  IN  IF w1.thrown THEN w1
      ELSE [w1 EXCEPT !.timers = Append(@, delayedGameOverScene)]

\* Coin.collect starts the tween that will destroy the coin
collect(w, i) == [w EXCEPT !.coins[i].collected = TRUE]

handleCoinCollision(w, i) ==
  LET w1 == addScore(collect(w, i), CoinValue)
  IN  IF w1.thrown THEN w1 ELSE emit(w1, COIN_COLLECTED, << >>)

\* GameScene.togglePause; the result says whether the world is paused
sceneTogglePause(w) == togglePause(w)

RECURSIVE obstacleOverlaps(_, _)
obstacleOverlaps(w, n) ==
  IF n = 0 \/ w.thrown THEN w ELSE obstacleOverlaps(handleObstacleCollision(w), n - 1)

RECURSIVE coinOverlaps(_, _, _)
coinOverlaps(w, hit, i) ==
  IF i > Len(w.coins) \/ w.thrown THEN w
  ELSE coinOverlaps(IF i \in hit THEN handleCoinCollision(w, i) ELSE w, hit, i + 1)

\* Scene shutdown when another scene is started: the clock drops its timers,
\* the display list destroys its objects, the Text objects of the HUD among
\* them, and the arcade world is discarded; GameScene has a shutdown method.
destroyTexts(hs) ==
  [i \in DOMAIN hs |-> [hs[i] EXCEPT !.scoreText.destroyed = TRUE,
                                    !.levelText.destroyed = TRUE]]

DelayedPending == Len(SelectSeq(timers, LAMBDA t : t.kind = "gameOverScene"))

History(op) ==
  /\ emitted' = << >>
  /\ called' = << >>
  /\ lastOp' = op
  /\ levelConfig' = << >>
  /\ UNCHANGED << runGameOvers, priorGameOvers, streak, streakEmits, streakFresh,
                  bestBeforeRun >>

InGame == scene = "GameScene" /\ ~crashed

\* boot: main.ts makes the GameState singleton and initializes it, BootScene
\* starts MenuScene
SceneInit ==
  /\ store = << >>
  /\ gameState = initialize(newGameState(EmptyWorld(TRUE)), 1).gs
  /\ listeners = NoListeners
  /\ scene = "MenuScene"
  /\ NoGame
  /\ NoHistory

\* MenuScene.startGame / GameOverScene.restartGame: scene.start('GameScene')
StartGame ==
  /\ scene \in {"MenuScene", "GameOverScene"}
  /\ ~crashed
  /\ Len(huds) < MaxRuns
  /\ Commit(create(World(TRUE), Len(huds) + 1), Op("create", 0, 0))
  /\ obstacles' = << >>
  /\ physicsPaused' = FALSE
  /\ scene' = "GameScene"
  /\ watched' = NoWatch

\* GameOverScene: the M key
ToMenu ==
  /\ scene = "GameOverScene"
  /\ scene' = "MenuScene"
  /\ History(Op("menu", 0, 0))
  /\ UNCHANGED << gameState, store, listeners, huds, timers, obstacles, coins,
                  physicsPaused, crashed, watched >>

\* GameScene.update with the pause key just pressed; without it no state
\* of the model changes
Update ==
  /\ InGame
  /\ LET w == sceneTogglePause(World(TRUE))
     IN  /\ Commit(w, Op("update", 1, 0))
         /\ physicsPaused' = w.gs.paused
  /\ UNCHANGED << obstacles, scene, watched >>

\* the pause check of spawnObstacle is missing
ObstacleTimerTick_ignoresPause ==
  \E i \in DOMAIN timers, draw \in RandomDraws, x \in SpawnXs :
    /\ InGame
    /\ timers[i].kind = "obstacle"
    /\ LET spawns == ~(draw > timers[i].chance)
       IN  /\ spawns => Len(obstacles) + Len(coins) < MaxEntities
           /\ obstacles' = IF spawns
                           THEN Append(obstacles, [y |-> SpawnY, speed |-> timers[i].speed])
                           ELSE obstacles
           /\ History(Op("obstacleTimer",
                         IF gameState.paused THEN -1 ELSE draw,
                         IF spawns THEN x ELSE 0))
    /\ UNCHANGED << gameState, store, listeners, huds, timers, coins,
                    physicsPaused, scene, crashed, watched >>

ObstacleTimerTick ==
  \E i \in DOMAIN timers, draw \in RandomDraws, x \in SpawnXs :
    /\ InGame
    /\ timers[i].kind = "obstacle"
    /\ LET spawns == ~gameState.paused /\ ~(draw > timers[i].chance)
       IN  /\ spawns => Len(obstacles) + Len(coins) < MaxEntities
           /\ obstacles' = IF spawns
                           THEN Append(obstacles, [y |-> SpawnY, speed |-> timers[i].speed])
                           ELSE obstacles
           /\ History(Op("obstacleTimer",
                         IF gameState.paused THEN -1 ELSE draw,
                         IF spawns THEN x ELSE 0))
    /\ UNCHANGED << gameState, store, listeners, huds, timers, coins,
                    physicsPaused, scene, crashed, watched >>

CoinTimerTick ==
  \E i \in DOMAIN timers, draw \in RandomDraws, x \in SpawnXs :
    /\ InGame
    /\ timers[i].kind = "coin"
    /\ LET spawns == ~gameState.paused /\ ~(draw > timers[i].chance)
       IN  /\ spawns => Len(obstacles) + Len(coins) < MaxEntities
           /\ coins' = IF spawns
                       THEN Append(coins, [y |-> SpawnY, speed |-> timers[i].speed,
                                           collected |-> FALSE])
                       ELSE coins
           /\ History(Op("coinTimer",
                         IF gameState.paused THEN -1 ELSE draw,
                         IF spawns THEN x ELSE 0))
    /\ UNCHANGED << gameState, store, listeners, huds, timers, obstacles,
                    physicsPaused, scene, crashed, watched >>

\* One step of the arcade world: bodies move, then the obstacle collider and
\* the coin collider call back for every overlapping pair.  The groups have
\* updated their children since the last step.
PhysicsStep ==
  LET movedObstacles == [i \in DOMAIN obstacles |-> Fall(obstacles[i])]
      movedCoins     == [i \in DOMAIN coins |-> Fall(coins[i])]
  IN  \E hitObstacles \in SUBSET {i \in DOMAIN obstacles : CanOverlap(movedObstacles[i])},
         hitCoins \in SUBSET {i \in DOMAIN coins : CanOverlap(movedCoins[i])} :
        /\ InGame
        /\ ~physicsPaused
        /\ \A i \in DOMAIN obstacles : ~OffScreen(obstacles[i])
        /\ \A i \in DOMAIN coins : ~OffScreen(coins[i])
        /\ DelayedPending + Cardinality(hitObstacles) <= MaxDelayed
        /\ gameState.score + CoinValue * Cardinality(hitCoins) <= MaxRunScore
        /\ LET w0 == [World(TRUE) EXCEPT !.coins = movedCoins]
               w1 == obstacleOverlaps(w0, Cardinality(hitObstacles))
               w2 == coinOverlaps(w1, hitCoins, 1)
           IN  Commit(w2, Op("physicsStep", Cardinality(hitObstacles),
                                            Cardinality(hitCoins)))
        /\ obstacles' = movedObstacles
        /\ UNCHANGED << physicsPaused, scene, watched >>

\* Group.preUpdate with runChildUpdate: Obstacle.update and Coin.update
GroupUpdate ==
  /\ InGame
  /\ \/ \E i \in DOMAIN obstacles : OffScreen(obstacles[i])
     \/ \E i \in DOMAIN coins : OffScreen(coins[i])
  /\ obstacles' = SelectSeq(obstacles, LAMBDA e : ~OffScreen(e))
  /\ coins' = SelectSeq(coins, LAMBDA e : ~OffScreen(e))
  /\ watched' = Survivor(Survivor(watched, "obstacle",
                                   {i \in DOMAIN obstacles : OffScreen(obstacles[i])}),
                          "coin", {i \in DOMAIN coins : OffScreen(coins[i])})
  /\ History(Op("groupUpdate", 0, 0))
  /\ UNCHANGED << gameState, store, listeners, huds, timers,
                  physicsPaused, scene, crashed >>

\* onComplete of the tween started by Coin.collect: this.destroy()
TweenComplete ==
  \E i \in DOMAIN coins :
    /\ InGame
    /\ coins[i].collected
    /\ coins' = [k \in 1..(Len(coins) - 1) |-> IF k < i THEN coins[k] ELSE coins[k + 1]]
    /\ watched' = Survivor(watched, "coin", {i})
    /\ History(Op("tweenComplete", 0, 0))
    /\ UNCHANGED << gameState, store, listeners, huds, timers, obstacles,
                    physicsPaused, scene, crashed >>

\* the delayed call of handleObstacleCollision: scene.start('GameOverScene')
\* GameOverScene.create chooses the label of the best score
isNewRecord(gs) == gs.score = gs.bestScoreValue /\ gs.score > 0

bestScoreLabel(gs) ==
  IF isNewRecord(gs) THEN << "NEW BEST SCORE!" >> ELSE << "Best Score" >>

DelayedCall ==
  \E i \in DOMAIN timers :
    /\ InGame
    /\ timers[i].kind = "gameOverScene"
    /\ scene' = "GameOverScene"
    /\ timers' = << >>
    /\ obstacles' = << >>
    /\ coins' = << >>
    /\ huds' = destroyTexts(huds)
    /\ physicsPaused' = FALSE
    /\ listeners' = shutdown(World(TRUE)).listeners
    /\ watched' = NoWatch
    /\ History(Op("delayedCall", 0, 0))
    /\ UNCHANGED << gameState, store, crashed >>

SceneNext ==
  \/ StartGame
  \/ ToMenu
  \/ Update
  \/ ObstacleTimerTick
  \/ CoinTimerTick
  \/ PhysicsStep
  \/ GroupUpdate
  \/ TweenComplete
  \/ DelayedCall

SceneSpec == SceneInit /\ [][SceneNext]_vars

----------------------------------------------------------------------------
(* Properties of GameState, checked under Spec *)

\* C1: in every state reachable from a freshly constructed GameState over an
\* empty store, by any sequence of its operations, bestScore >= score.
C1_BestScoreAtLeastScore ==
  gameState.bestScoreValue >= gameState.score

\* a score-mutating call has just raised the best score to the score
C1_Witness ==
  /\ lastOp.name \in {"addScore", "setScore"}
  /\ gameState.score > 0
  /\ gameState.bestScoreValue = gameState.score

\* C2: after addScore(p), bestScore = max(bestScore before, score after); and
\* no operation other than reset({clearBestScore: true}) decreases bestScore.
C2_BestScoreIsRunningMax ==
  [][ /\ lastOp'.name = "addScore" =>
           gameState'.bestScoreValue =
             Max(gameState.bestScoreValue, gameState'.score)
      /\ ~(lastOp'.name = "reset" /\ lastOp'.arg = 1) =>
           gameState'.bestScoreValue >= gameState.bestScoreValue ]_vars

\* addScore of a negative amount has left the best score above the score
C2_Witness ==
  /\ lastOp.name = "addScore"
  /\ lastOp.arg < 0
  /\ gameState.bestScoreValue > gameState.score
  /\ gameState.bestScoreValue > 0

\* C3: N > 1 consecutive gameOver() calls, the first made in a run that has
\* not ended, emit game-over exactly once and leave ended and paused true;
\* the second and later calls change nothing and emit nothing.
C3_GameOverIdempotent ==
  [][ lastOp'.name = "gameOver" =>
        /\ gameState'.hasGameEnded
        /\ streakFresh' => (streakEmits' = 1 /\ gameState'.paused)
        /\ streak >= 1 => /\ gameState' = gameState
                          /\ store' = store
                          /\ listeners' = listeners
                          /\ emitted' = << >> ]_vars

\* a third consecutive call in a run that had not ended before the first
C3_Witness ==
  /\ lastOp.name = "gameOver"
  /\ streak = 3
  /\ streakFresh
  /\ streakEmits = 1

\* C4: ended stays true under every operation but initialize/reset; between
\* two initialize/reset calls game-over is emitted at most once; initialize
\* and reset clear ended, and the next gameOver() emits again.
C4_EndedUntilNextRun ==
  [][ /\ (gameState.hasGameEnded /\ ~StartsRun(lastOp')) => gameState'.hasGameEnded
      /\ runGameOvers' <= 1
      /\ StartsRun(lastOp') => (~gameState'.hasGameEnded /\ runGameOvers' = 0)
      /\ (lastOp'.name = "gameOver" /\ ~gameState.hasGameEnded) =>
           (Count(emitted', GAME_OVER) = 1 /\ runGameOvers' = 1) ]_vars

\* a second run has emitted its own game-over event
C4_Witness ==
  /\ priorGameOvers
  /\ runGameOvers = 1
  /\ gameState.hasGameEnded

----------------------------------------------------------------------------
(* Properties of a game, checked under SceneSpec *)

\* C5: from gameOver until the next initialize/reset paused stays true; a
\* pause-toggle input during the ended run cannot resume the simulation.
C5_EndedStaysPaused ==
  (scene = "GameScene" /\ gameState.hasGameEnded) => gameState.paused

NoScoreAfterGameOver(log) ==
  \A i, j \in DOMAIN log :
    (log[i].type = GAME_OVER /\ i < j) => log[j].type # SCORE_CHANGED

\* C6: once game-over has fired in a run, no coin overlap changes the score
\* and no score-changed event is emitted before the next initialize/reset.
C6_NoCollisionAfterGameOver ==
  [][ /\ (gameState.hasGameEnded /\ ~StartsRun(lastOp')) =>
           /\ gameState'.score = gameState.score
           /\ Count(emitted', SCORE_CHANGED) = 0
      /\ NoScoreAfterGameOver(emitted') ]_vars

\* C7: an obstacle collision in a run that has not ended ends it and fires
\* game-over once, however many obstacles collide in that step; obstacle
\* collisions of a run that has ended fire no game-over event and change no
\* GameState field.
C7_ObstacleCollisionEndsRunOnce ==
  [][ (lastOp'.name = "physicsStep" /\ lastOp'.arg >= 1) =>
        /\ gameState'.hasGameEnded
        /\ runGameOvers' = 1
        /\ Count(emitted', GAME_OVER) = IF gameState.hasGameEnded THEN 0 ELSE 1
        /\ ~gameState.hasGameEnded => gameState'.paused
        /\ lastOp'.n = 0 =>
             gameState' = IF gameState.hasGameEnded THEN gameState
                          ELSE [gameState EXCEPT !.hasGameEnded = TRUE,
                                                 !.paused = TRUE] ]_vars

\* two obstacles collided with the avatar in the step that ended the run
C7_Witness ==
  /\ lastOp.name = "physicsStep"
  /\ lastOp.arg = 2
  /\ Count(emitted, GAME_OVER) = 1
  /\ gameState.hasGameEnded

NewlyCollected ==
  Cardinality({i \in DOMAIN coins : ~coins[i].collected /\ coins'[i].collected})

\* C8: every collected coin is scored exactly once: a world step adds 10 to
\* the score for each coin it collects and nothing for a coin collected before.
C8_CoinScoredOnce ==
  [][ lastOp'.name = "physicsStep" =>
        gameState'.score = gameState.score + CoinValue * NewlyCollected ]_vars

\* C9: during a run the level equals getLevelForScore(score) after every
\* step, never decreases, and a level change is announced once, with the
\* level of the new score.
C9_LevelTracksScore ==
  [][ scene' = "GameScene" =>
        /\ gameState'.level = getLevelForScore(gameState'.score)
        /\ scene = "GameScene" => gameState'.level >= gameState.level
        /\ Count(emitted', LEVEL_CHANGED) =
             IF scene = "GameScene" /\ gameState'.level # gameState.level THEN 1 ELSE 0
        /\ \A k \in DOMAIN emitted' :
             emitted'[k].type = LEVEL_CHANGED =>
               emitted'[k].data = << getLevelForScore(gameState'.score) >> ]_vars

\* the step in which the score reached the threshold of level 2
C9_Witness ==
  /\ scene = "GameScene"
  /\ gameState.level = 2
  /\ gameState.score >= 50
  /\ Count(emitted, LEVEL_CHANGED) = 1

TimersOfKind(ts, kind) == SelectSeq(ts, LAMBDA t : t.kind = kind)

\* C10: during a run there is exactly one obstacle timer and one coin timer,
\* each with the interval, speed and chance of the tier of the current level,
\* also right after a level change; what a timer spawns has the speed of
\* that tier.
C10_OneTimerPairOfCurrentTier ==
  [][ scene' = "GameScene" =>
        LET tier == getLevelConfig(gameState'.level)
            ot   == TimersOfKind(timers', "obstacle")
            ct   == TimersOfKind(timers', "coin")
        IN  /\ Len(ot) = 1
            /\ ot[1].delay = tier.obstacleSpawnInterval
            /\ ot[1].speed = tier.obstacleSpeed
            /\ ot[1].chance = tier.obstacleSpawnChance
            /\ Len(ct) = 1
            /\ ct[1].delay = tier.coinSpawnInterval
            /\ ct[1].speed = tier.coinSpeed
            /\ ct[1].chance = tier.coinSpawnChance
            /\ Len(obstacles') > Len(obstacles) =>
                 obstacles'[Len(obstacles')].speed = tier.obstacleSpeed
            /\ Len(coins') > Len(coins) =>
                 coins'[Len(coins')].speed = tier.coinSpeed ]_vars

\* an obstacle timer tick of level 2 has spawned an obstacle
C10_Witness ==
  /\ scene = "GameScene"
  /\ gameState.level = 2
  /\ lastOp.name = "obstacleTimer"
  /\ lastOp.n > 0
  /\ obstacles[Len(obstacles)].speed = 120

\* C11: a timer tick while paused creates no entity whatever the draw and
\* leaves nothing behind to be made up for: the entities and the timers are
\* as before, and the step that resumes the run creates no entity either.
C11_PausedTickIsLost ==
  [][ /\ (lastOp'.name \in {"obstacleTimer", "coinTimer"} /\ gameState.paused) =>
           /\ obstacles' = obstacles
           /\ coins' = coins
           /\ timers' = timers
      /\ lastOp'.name = "update" =>
           /\ obstacles' = obstacles
           /\ coins' = coins
           /\ timers' = timers ]_vars

\* an obstacle timer has ticked while the player had paused the run
C11_Witness ==
  /\ scene = "GameScene"
  /\ lastOp.name = "obstacleTimer"
  /\ lastOp.arg = -1
  /\ gameState.paused
  /\ ~gameState.hasGameEnded
  /\ obstacles = << >>

\* C12: entities move only while the run is Running: a step taken while the
\* run is paused or after it has ended moves no obstacle and no coin.
C12_EntitiesMoveOnlyWhileRunning ==
  [][ ( /\ gameState.paused \/ gameState.hasGameEnded
        /\ scene = "GameScene" /\ scene' = "GameScene"
        /\ Len(obstacles') = Len(obstacles)
        /\ Len(coins') = Len(coins) ) =>
        /\ \A i \in DOMAIN obstacles : obstacles'[i].y = obstacles[i].y
        /\ \A i \in DOMAIN coins : coins'[i].y = coins[i].y ]_vars

----------------------------------------------------------------------------
(* Further properties of GameState, checked under Spec *)

\* C13: initialize(startingLevel) sets score 0, the given level, paused and
\* ended false, leaves the best score and its stored copy as they were and
\* emits no event.
C13_InitializeEffect ==
  [][ lastOp'.name = "initialize" =>
        /\ gameState' = [score |-> 0, level |-> lastOp'.arg,
                         bestScoreValue |-> gameState.bestScoreValue,
                         paused |-> FALSE, hasGameEnded |-> FALSE]
        /\ store' = store
        /\ emitted' = << >> ]_vars

\* initialize(2) after a run that scored and wrote its best score
C13_Witness ==
  /\ lastOp.name = "initialize"
  /\ lastOp.arg = 2
  /\ gameState.level = 2
  /\ gameState.score = 0
  /\ gameState.bestScoreValue = 20
  /\ store = << toString(20) >>
  /\ priorGameOvers

\* C15: addScore(p) and updateScore(p) add p to the score, negative p
\* included, and emit exactly one score-changed event carrying the new score;
\* from a fresh state addScore(10) gives score 10 and best score 10, and
\* addScore(-5) after it gives score 5 with the best score still 10.
C15_AddScoreEffect ==
  [][ lastOp'.name \in {"addScore", "updateScore"} =>
        /\ gameState'.score = gameState.score + lastOp'.arg
        /\ emitted' = << [type |-> SCORE_CHANGED, data |-> << gameState'.score >>] >>
        /\ gameState'.level = gameState.level
        /\ gameState'.paused = gameState.paused
        /\ gameState'.hasGameEnded = gameState.hasGameEnded
        /\ (gameState.score = 0 /\ gameState.bestScoreValue = 0 /\ lastOp'.arg = 10) =>
             (gameState'.score = 10 /\ gameState'.bestScoreValue = 10)
        /\ (gameState.score = 10 /\ gameState.bestScoreValue = 10 /\ lastOp'.arg = -5) =>
             (gameState'.score = 5 /\ gameState'.bestScoreValue = 10) ]_vars

\* addScore(-5) has taken the score from 10 to 5 under a best score of 10
C15_Witness ==
  /\ lastOp.name = "addScore"
  /\ lastOp.arg = -5
  /\ gameState.score = 5
  /\ gameState.bestScoreValue = 10
  /\ emitted = << [type |-> SCORE_CHANGED, data |-> << 5 >>] >>

\* C16 as stated: the score is never negative and, between two consecutive
\* initialize/reset calls, never decreases.
C16_ScoreNeverDecreases ==
  [][ /\ gameState'.score >= 0
      /\ ~StartsRun(lastOp') => gameState'.score >= gameState.score ]_vars

\* C16 amended: within a run the score decreases, and so can become
\* negative, only by addScore/updateScore with negative points or by setScore
\* with a smaller value; no other operation lowers it.
C16_ScoreDecreasesOnlyByDeduction ==
  [][ gameState'.score < gameState.score =>
        \/ StartsRun(lastOp')
        \/ lastOp'.name \in {"addScore", "updateScore"} /\ lastOp'.arg < 0
        \/ lastOp'.name = "setScore" /\ lastOp'.arg < gameState.score ]_vars

\* a deduction has made the score negative
C16_Witness ==
  /\ lastOp.name = "updateScore"
  /\ lastOp.arg = -5
  /\ gameState.score = -5
  /\ gameState.bestScoreValue = 10

\* what a call leaves when it is made on the objects w
ApplyOp(op, w) ==
  CASE op.name = "addScore"    -> addScore(w, op.arg)
    [] op.name = "updateScore" -> updateScore(w, op.arg)
    [] op.name = "setScore"    -> setScore(w, op.arg)
    [] op.name = "gameOver"    -> gameOver(w)
    [] op.name = "reset"       -> reset(w, op.arg = 1)
    [] OTHER                   -> w

\* C18: whether or not the store's calls fail, the constructor, addScore,
\* updateScore, setScore, gameOver and reset throw nothing, and leave the
\* GameState fields and emit the events that they do with a working store.
C18_StoreFailureIsContained ==
  /\ ~crashed /\ gameState.bestScoreValue = 0
  /\ [][ lastOp'.name \in {"addScore", "updateScore", "setScore", "gameOver", "reset"} =>
           /\ ~crashed'
           /\ gameState' = ApplyOp(lastOp', World(TRUE)).gs
           /\ emitted' = ApplyOp(lastOp', World(TRUE)).log ]_vars

\* addScore(10) has raised the best score while the write to the store failed
C18_Witness ==
  /\ lastOp.name = "addScore"
  /\ lastOp.arg = 10
  /\ gameState.score = 10
  /\ gameState.bestScoreValue = 10
  /\ store = << >>
  /\ ~crashed

----------------------------------------------------------------------------
(* StoreSpec: the best score and its stored copy.  The store holds any of   *)
(* StoredStrings, or nothing, when the GameState is constructed; its calls  *)
(* succeed; the page may be loaded again, which constructs a new GameState  *)
(* over what the store then holds.  One subscriber observes score-changed   *)
(* and game-over.                                                           *)

StoredStrings ==
  { << >>,
    << "a", "b", "c" >>,
    << "1", "2", "a", "b", "c" >>,
    << "-", "5" >>,
    << "2", "0" >> }

StoreInit ==
  /\ store \in { << >> } \cup { << str >> : str \in StoredStrings }
  /\ gameState = newGameState([EmptyWorld(TRUE) EXCEPT !.store = store]).gs
  /\ listeners = [NoListeners EXCEPT ![GAME_OVER] = << Observer(1) >>,
                                     ![SCORE_CHANGED] = << Observer(1) >>]
  /\ scene = "none"
  /\ NoGame
  /\ NoHistory

\* new GameState()
Construct ==
  /\ Commit(newGameState(World(TRUE)), Op("construct", 0, 0))
  /\ SceneUnchanged

AddScoreStored ==
  \E points \in Points :
    /\ InScoreRange(gameState.score + points)
    /\ Commit(addScore(World(TRUE), points), Op("addScore", points, 0))
    /\ SceneUnchanged

UpdateScoreStored ==
  \E points \in Points :
    /\ InScoreRange(gameState.score + points)
    /\ Commit(updateScore(World(TRUE), points), Op("updateScore", points, 0))
    /\ SceneUnchanged

SetScoreStored ==
  \E score \in ScoreValues :
    /\ Commit(setScore(World(TRUE), score), Op("setScore", score, 0))
    /\ SceneUnchanged

GameOverStored ==
  /\ streak < MaxStreak
  /\ Commit(gameOver(World(TRUE)), Op("gameOver", 0, 0))
  /\ SceneUnchanged

ResetStored ==
  \E clearBestScore \in BOOLEAN :
    /\ Commit(reset(World(TRUE), clearBestScore),
              Op("reset", IF clearBestScore THEN 1 ELSE 0, 0))
    /\ SceneUnchanged

\* NextLevel, SetLevel, TogglePause and Initialize make no call of the store
StoreNext ==
  \/ Construct
  \/ AddScoreStored
  \/ UpdateScoreStored
  \/ SetScoreStored
  \/ NextLevel
  \/ SetLevel
  \/ TogglePause
  \/ GameOverStored
  \/ Initialize
  \/ ResetStored

StoreSpec == StoreInit /\ [][StoreNext]_vars

----------------------------------------------------------------------------
(* Properties of the stored best score, checked under StoreSpec *)

\* C14: reset() sets score 0, level 1, paused and ended false, as
\* initialize() does, emits nothing and leaves the best score and its stored
\* copy as they were; reset({clearBestScore: true}) also sets the best score
\* to 0 and removes the stored copy.
C14_ResetEffect ==
  [][ lastOp'.name = "reset" =>
        /\ gameState' = [score |-> 0, level |-> 1,
                         bestScoreValue |-> IF lastOp'.arg = 1 THEN 0
                                            ELSE gameState.bestScoreValue,
                         paused |-> FALSE, hasGameEnded |-> FALSE]
        /\ store' = IF lastOp'.arg = 1 THEN << >> ELSE store
        /\ emitted' = << >> ]_vars

\* reset() after a run that wrote a best score of 10
C14_Witness ==
  /\ lastOp.name = "reset"
  /\ lastOp.arg = 0
  /\ gameState.score = 0
  /\ gameState.bestScoreValue = 10
  /\ store = << toString(10) >>
  /\ priorGameOvers

\* the best score a GameState constructed now would load
LoadedBestScore(stored) ==
  newGameState([EmptyWorld(TRUE) EXCEPT !.store = stored]).gs.bestScoreValue

\* C17: an operation that raises the best score writes it to the store in
\* the same operation (the clearing reset, which sets it to 0, removes the
\* stored copy instead), and after every operation a newly constructed
\* GameState would load the best score the present one holds.
C17_BestScorePersisted ==
  [][ /\ (gameState'.bestScoreValue > gameState.bestScoreValue /\ lastOp'.name # "reset") =>
           store' = << toString(gameState'.bestScoreValue) >>
      /\ LoadedBestScore(store') = gameState'.bestScoreValue ]_vars

\* a new GameState has loaded the 10 that an earlier one wrote
C17_Witness ==
  /\ lastOp.name = "construct"
  /\ gameState.score = 0
  /\ gameState.bestScoreValue = 10
  /\ store = << toString(10) >>

\* the whole string is a decimal integer
IsNumeric(str) ==
  LET body == IF str # << >> /\ Head(str) \in {"-", "+"} THEN Tail(str) ELSE str
  IN  body # << >> /\ \A i \in DOMAIN body : IsDigit(body[i])

\* C19: a GameState constructed over a store that holds nothing, or a string
\* that is not a number, has best score 0, and constructing it throws nothing.
C19_CorruptStoreLoadsZero ==
  ( /\ lastOp.name \in {"new", "construct"}
    /\ store = << >> \/ ~IsNumeric(store[1]) ) =>
  (gameState.bestScoreValue = 0 /\ ~crashed)

\* C20: the best score is never negative, whatever string the store held
\* when the GameState was constructed.
C20_BestScoreNonNegative == gameState.bestScoreValue >= 0


\* C21: a gameOver() that takes effect sets the best score to the larger of
\* the best score and the score, and writes it to the store if that raised
\* it, before it emits game-over: the subscriber called with the event
\* already sees that best score and that stored copy, and the payload is the
\* score and that best score.
C21_BestScoreSettledBeforeGameOver ==
  [][ (lastOp'.name = "gameOver" /\ ~gameState.hasGameEnded) =>
        LET best    == Max(gameState.bestScoreValue, gameState.score)
            written == IF gameState.score > gameState.bestScoreValue
                       THEN << toString(best) >> ELSE store
        IN  /\ emitted' = << [type |-> GAME_OVER,
                              data |-> << gameState.score, best >>] >>
            /\ called' = << [handler |-> Observer(1),
                             data |-> << gameState.score, best >>,
                             bestScore |-> best, store |-> written] >>
            /\ gameState'.bestScoreValue = best
            /\ store' = written ]_vars

\* a game over at score 0 over a stored "-5": the subscriber saw the best
\* score 0 and its stored copy
C21_Witness ==
  /\ lastOp.name = "gameOver"
  /\ emitted = << [type |-> GAME_OVER, data |-> << 0, 0 >>] >>
  /\ Len(called) = 1
  /\ called[1].bestScore = 0
  /\ called[1].store = << toString(0) >>
  /\ ~priorGameOvers
  /\ runGameOvers = 1


----------------------------------------------------------------------------
(* LevelSpec: getLevelForScore and getLevelConfig, called with any score   *)
(* and any level number of a range around the table; lastOp holds the call *)
(* and the level number returned, levelConfig the tier returned.           *)

\* every score up to MaxLookupScore, the scores around every threshold of
\* the table, and a few negative scores
LookupScores ==
  ((0 - MaxDebt)..MaxLookupScore)
    \cup { LEVELS[i].requiredScore + d : i \in DOMAIN LEVELS, d \in {-1, 0, 1} }

\* level numbers from below the table to beyond it, and one far beyond
LookupLevels == ((0 - MaxBelow)..(Len(LEVELS) + MaxBeyond)) \cup {999}

LevelInit ==
  /\ store = << >>
  /\ gameState = newGameState(EmptyWorld(TRUE)).gs
  /\ listeners = NoListeners
  /\ scene = "none"
  /\ NoGame
  /\ NoHistory

LookupUnchanged ==
  UNCHANGED << gameState, store, listeners, huds, timers, obstacles, coins,
               physicsPaused, scene, crashed, emitted, called,
               runGameOvers, priorGameOvers, streak, streakEmits, streakFresh,
               bestBeforeRun, watched >>

GetLevelForScore ==
  \E score \in LookupScores :
    /\ lastOp' = Op("getLevelForScore", score, getLevelForScore(score))
    /\ levelConfig' = << >>
    /\ LookupUnchanged

GetLevelConfig ==
  \E level \in LookupLevels :
    /\ lastOp' = Op("getLevelConfig", level, 0)
    /\ levelConfig' = << getLevelConfig(level) >>
    /\ LookupUnchanged

LevelNext ==
  \/ GetLevelForScore
  \/ GetLevelConfig

LevelSpec == LevelInit /\ [][LevelNext]_vars

----------------------------------------------------------------------------
(* Properties of the level table, checked under LevelSpec *)

\* C22: getLevelForScore is monotonic: of two lookups, the one with the
\* larger score never returns the smaller level.
C22_LevelForScoreMonotonic ==
  [][ ( /\ lastOp.name = "getLevelForScore"
        /\ lastOp'.name = "getLevelForScore"
        /\ lastOp.arg <= lastOp'.arg ) =>
      lastOp.n <= lastOp'.n ]_vars

\* a lookup above the last threshold of the table
C22_Witness ==
  /\ lastOp.name = "getLevelForScore"
  /\ lastOp.arg > LEVELS[Len(LEVELS)].requiredScore
  /\ lastOp.n = Len(LEVELS)


\* C23: getLevelForScore returns the highest level number of the table whose
\* threshold is at most the score, and 1 when the score is below every
\* threshold.
C23_HighestLevelReached ==
  lastOp.name = "getLevelForScore" =>
    LET reached == { LEVELS[i].level :
                       i \in { j \in DOMAIN LEVELS : LEVELS[j].requiredScore <= lastOp.arg } }
    IN  /\ reached = {} => lastOp.n = 1
        /\ reached # {} => (lastOp.n \in reached /\ \A l \in reached : l <= lastOp.n)

\* a score exactly on the threshold of level 4
C23_Witness ==
  /\ lastOp.name = "getLevelForScore"
  /\ lastOp.arg = LEVELS[4].requiredScore
  /\ lastOp.n = 4

\* C24 as stated: the thresholds are 0, 150, 350, ..., and the lookup
\* returns 1 for a score of 149 and 2 for 150.
C24_ThresholdsAsStated ==
  /\ LEVELS[1].requiredScore = 0
  /\ LEVELS[2].requiredScore = 150
  /\ LEVELS[3].requiredScore = 350
  /\ (lastOp.name = "getLevelForScore" /\ lastOp.arg = 149) => lastOp.n = 1
  /\ (lastOp.name = "getLevelForScore" /\ lastOp.arg = 150) => lastOp.n = 2

\* C24: the thresholds of the table are 0, 50, 150, ..., and the lookup
\* returns 2 for a score of 149 and 3 for 150.
C24_Thresholds ==
  /\ LEVELS[1].requiredScore = 0
  /\ LEVELS[2].requiredScore = 50
  /\ LEVELS[3].requiredScore = 150
  /\ (lastOp.name = "getLevelForScore" /\ lastOp.arg = 149) => lastOp.n = 2
  /\ (lastOp.name = "getLevelForScore" /\ lastOp.arg = 150) => lastOp.n = 3

\* the lookup of 150
C24_Witness ==
  /\ lastOp.name = "getLevelForScore"
  /\ lastOp.arg = 150
  /\ lastOp.n = 3

\* C25: for a level number below 1 getLevelConfig returns the tier of level
\* 1, never undefined.
C25_ClampsLow ==
  (lastOp.name = "getLevelConfig" /\ lastOp.arg < 1) =>
    (~levelConfig[1].undefined /\ levelConfig[1] = getLevelConfig(1))

\* C26 as stated: for a level number at or above the last level of the table
\* getLevelConfig returns the last tier of the table.
C26_ClampsHigh ==
  (lastOp.name = "getLevelConfig" /\ lastOp.arg >= Len(LEVELS)) =>
    levelConfig[1] = Defined(LEVELS[Len(LEVELS)])

\* C26: for the last level number of the table getLevelConfig returns the
\* last tier; for a level number k levels above it, it returns a tier with
\* that level number whose coin settings are the last tier's and whose
\* threshold is 500 k higher, obstacle interval 50 k shorter but not below
\* 500, obstacle speed 20 k higher and obstacle chance 0.01 k higher but not
\* above 0.98.
C26_ExtrapolatesHigh ==
  (lastOp.name = "getLevelConfig" /\ lastOp.arg >= Len(LEVELS)) =>
    LET last == LEVELS[Len(LEVELS)]
        k    == lastOp.arg - Len(LEVELS)
        tier == levelConfig[1]
    IN  /\ ~tier.undefined
        /\ tier.level = lastOp.arg
        /\ tier.requiredScore = last.requiredScore + 500 * k
        /\ tier.obstacleSpawnInterval =
             (IF last.obstacleSpawnInterval - 50 * k < 500 THEN 500
              ELSE last.obstacleSpawnInterval - 50 * k)
        /\ tier.obstacleSpeed = last.obstacleSpeed + 20 * k
        /\ tier.obstacleSpawnChance =
             (IF last.obstacleSpawnChance + k > 98 THEN 98
              ELSE last.obstacleSpawnChance + k)
        /\ tier.coinSpawnInterval = last.coinSpawnInterval
        /\ tier.coinSpeed = last.coinSpeed
        /\ tier.coinSpawnChance = last.coinSpawnChance

\* the tier of level 999
C26_Witness ==
  /\ lastOp.name = "getLevelConfig"
  /\ lastOp.arg = 999
  /\ levelConfig[1].level = 999
  /\ levelConfig[1].obstacleSpawnInterval = 500
  /\ levelConfig[1].obstacleSpawnChance = 98

\* C27: from level 1 on, through the table and beyond it, a tier of a higher
\* level has a threshold and speeds at least as high and spawn intervals at
\* most as long, and every spawn chance is above 0 and at most 1 (chances
\* are held in hundredths).
C27_DifficultyMonotonic ==
  /\ [](( lastOp.name = "getLevelConfig" /\ lastOp.arg >= 1 ) =>
          /\ levelConfig[1].obstacleSpawnChance > 0
          /\ levelConfig[1].obstacleSpawnChance <= 100
          /\ levelConfig[1].coinSpawnChance > 0
          /\ levelConfig[1].coinSpawnChance <= 100)
  /\ [][ ( /\ lastOp.name = "getLevelConfig"
           /\ lastOp'.name = "getLevelConfig"
           /\ 1 <= lastOp.arg
           /\ lastOp.arg <= lastOp'.arg ) =>
         /\ levelConfig[1].requiredScore <= levelConfig'[1].requiredScore
         /\ levelConfig[1].obstacleSpawnInterval >= levelConfig'[1].obstacleSpawnInterval
         /\ levelConfig[1].coinSpawnInterval >= levelConfig'[1].coinSpawnInterval
         /\ levelConfig[1].obstacleSpeed <= levelConfig'[1].obstacleSpeed
         /\ levelConfig[1].coinSpeed <= levelConfig'[1].coinSpeed ]_vars

\* a tier beyond the table, after its obstacle interval and chance have
\* stopped changing
C27_Witness ==
  /\ lastOp.name = "getLevelConfig"
  /\ lastOp.arg = Len(LEVELS) + MaxBeyond
  /\ levelConfig[1].obstacleSpawnInterval = 500
  /\ levelConfig[1].obstacleSpawnChance = 98


----------------------------------------------------------------------------
(* BusSpec: the EventBus with callers that subscribe, unsubscribe, emit and *)
(* clear in any order.  lastOp holds the call: its event and its callback  *)
(* as positions in BusEvents and Subscribers.                              *)

BusEvents == << PLAYER_HIT, COIN_COLLECTED >>

Subscribers == << Observer(1), Once(1), Remover(1) >>

BusInit ==
  /\ store = << >>
  /\ gameState = newGameState(EmptyWorld(TRUE)).gs
  /\ listeners = NoListeners
  /\ scene = "none"
  /\ NoGame
  /\ NoHistory

On ==
  \E e \in DOMAIN BusEvents, c \in DOMAIN Subscribers :
    /\ Len(listeners[BusEvents[e]]) < MaxListeners
    /\ Commit(on(World(TRUE), BusEvents[e], Subscribers[c]), Op("on", e, c))
    /\ SceneUnchanged

Off ==
  \E e \in DOMAIN BusEvents, c \in DOMAIN Subscribers :
    /\ Commit(off(World(TRUE), BusEvents[e], Subscribers[c]), Op("off", e, c))
    /\ SceneUnchanged

Emit ==
  \E e \in DOMAIN BusEvents :
    /\ Commit(emit(World(TRUE), BusEvents[e], << >>), Op("emit", e, 0))
    /\ SceneUnchanged

Clear ==
  /\ Commit(clear(World(TRUE)), Op("clear", 0, 0))
  /\ SceneUnchanged

BusNext ==
  \/ On
  \/ Off
  \/ Emit
  \/ Clear

BusSpec == BusInit /\ [][BusNext]_vars

----------------------------------------------------------------------------
(* Properties of the EventBus, checked under BusSpec *)

\* C28: emit calls every handler registered for the event when it is
\* called, each exactly once and in the order of registration, before it
\* returns, whether or not a handler unsubscribes itself or another handler
\* while the event is dispatched.
C28_EmitCallsEveryHandler ==
  [][ lastOp'.name = "emit" =>
        LET registered == listeners[BusEvents[lastOp'.arg]]
        IN  /\ Len(called') = Len(registered)
            /\ \A i \in DOMAIN registered : called'[i].handler = registered[i] ]_vars

\* C29: off removes the first registration of the handler for the event and
\* nothing else: the registrations before it and after it keep their order,
\* those of other events are untouched, and off for a handler that is not
\* registered for the event changes nothing.
C29_OffRemovesFirstMatch ==
  [][ lastOp'.name = "off" =>
        LET event   == BusEvents[lastOp'.arg]
            handler == Subscribers[lastOp'.n]
            before  == listeners[event]
            after   == listeners'[event]
            matches == { i \in DOMAIN before : before[i] = handler }
        IN  /\ \A e \in GameEvents \ {event} : listeners'[e] = listeners[e]
            /\ matches = {} => after = before
            /\ matches # {} =>
                 /\ Len(after) = Len(before) - 1
                 /\ \A i \in DOMAIN after :
                      after[i] = IF \E m \in matches : m <= i
                                 THEN before[i + 1] ELSE before[i] ]_vars

\* off for an observer registered twice around a once-handler: the first
\* registration went, the second stayed behind the once-handler
C29_Witness ==
  /\ lastOp = Op("off", 1, 1)
  /\ listeners[PLAYER_HIT] = << Once(1), Observer(1) >>


----------------------------------------------------------------------------
(* A further property of GameState, checked under Spec *)

\* C30: togglePause() flips the paused flag, changes no other field and
\* nothing in the store, and emits one event, game-paused when the flag is
\* then true and game-resumed when it is then false; two calls in a row,
\* from any state, give back the state they started from, having emitted
\* one event each.
C30_TogglePauseEffect ==
  /\ [](LET twice  == togglePause(togglePause(World(TRUE)))
            first  == IF gameState.paused THEN GAME_RESUMED ELSE GAME_PAUSED
            second == IF gameState.paused THEN GAME_PAUSED ELSE GAME_RESUMED
        IN  /\ twice.gs = gameState
            /\ twice.store = store
            /\ twice.log = << [type |-> first, data |-> << >>],
                              [type |-> second, data |-> << >>] >>)
  /\ [][ lastOp'.name = "togglePause" =>
           /\ gameState' = [gameState EXCEPT !.paused = ~gameState.paused]
           /\ store' = store
           /\ emitted' = << [type |-> IF gameState'.paused THEN GAME_PAUSED
                                      ELSE GAME_RESUMED,
                             data |-> << >>] >> ]_vars

\* a run with a score of 10 has been resumed
C30_Witness ==
  /\ lastOp.name = "togglePause"
  /\ ~gameState.paused
  /\ ~gameState.hasGameEnded
  /\ gameState.score = 10
  /\ emitted = << [type |-> GAME_RESUMED, data |-> << >>] >>


----------------------------------------------------------------------------
(* Further properties of the scene, checked under SceneSpec *)

\* C31: a timer tick while the game is not paused creates exactly one entity
\* of its kind when the random draw is at most the spawn chance of the tier
\* of the current level, and none when the draw is greater; the entity
\* starts above the visible area, at an x within the field, with the fall
\* speed of that tier.
C31_SpawnOnTick ==
  [][ (lastOp'.name \in {"obstacleTimer", "coinTimer"} /\ ~gameState.paused) =>
        LET tier   == getLevelConfig(gameState.level)
            ofKind == lastOp'.name = "obstacleTimer"
            chance == IF ofKind THEN tier.obstacleSpawnChance ELSE tier.coinSpawnChance
            speed  == IF ofKind THEN tier.obstacleSpeed ELSE tier.coinSpeed
            before == IF ofKind THEN obstacles ELSE coins
            after  == IF ofKind THEN obstacles' ELSE coins'
        IN  /\ ofKind => coins' = coins
            /\ ~ofKind => obstacles' = obstacles
            /\ lastOp'.arg > chance => after = before
            /\ lastOp'.arg <= chance =>
                 /\ Len(after) = Len(before) + 1
                 /\ SubSeq(after, 1, Len(before)) = before
                 /\ after[Len(after)].y < 0
                 /\ after[Len(after)].speed = speed
                 /\ lastOp'.n >= 0
                 /\ lastOp'.n <= FieldWidth ]_vars

\* an obstacle spawned at level 2, at the right end of the spawn range, with
\* the obstacle speed of level 2
C31_Witness ==
  /\ lastOp = Op("obstacleTimer", 70, FieldWidth - 50)
  /\ gameState.level = 2
  /\ ~gameState.paused
  /\ obstacles # << >>
  /\ obstacles[Len(obstacles)] = [y |-> SpawnY, speed |-> LEVELS[2].obstacleSpeed]


\* C32: a level change in a running scene leaves every obstacle and coin
\* there is with the fall speed it has; an entity spawned after the change
\* has the speed of the new tier.
C32_SpeedKeptAcrossLevels ==
  [][ /\ ( /\ scene = "GameScene" /\ scene' = "GameScene"
           /\ gameState'.level # gameState.level ) =>
           /\ Len(obstacles') = Len(obstacles)
           /\ \A i \in DOMAIN obstacles : obstacles'[i].speed = obstacles[i].speed
           /\ Len(coins') = Len(coins)
           /\ \A i \in DOMAIN coins : coins'[i].speed = coins[i].speed
      /\ (lastOp'.name = "obstacleTimer" /\ Len(obstacles') > Len(obstacles)) =>
           obstacles'[Len(obstacles')].speed = getLevelConfig(gameState'.level).obstacleSpeed
      /\ (lastOp'.name = "coinTimer" /\ Len(coins') > Len(coins)) =>
           coins'[Len(coins')].speed = getLevelConfig(gameState'.level).coinSpeed ]_vars

\* the step that reached level 2, with an obstacle of level 1 still falling
C32_Witness ==
  /\ lastOp.name = "physicsStep"
  /\ Count(emitted, LEVEL_CHANGED) = 1
  /\ gameState.level = 2
  /\ \E i \in DOMAIN obstacles : obstacles[i].speed = LEVELS[1].obstacleSpeed


----------------------------------------------------------------------------
(* Further properties of GameState, checked under Spec *)

\* C33: setLevel(n) sets the level to n and nextLevel() sets it to the level
\* plus 1; each emits one level-changed event with the new level and leaves
\* the score, the best score, the paused and ended flags and the store as
\* they were.  No level number is refused or adjusted: from every state
\* setLevel does the same for numbers below, after and far after the table.
C33_SetLevelEffect ==
  /\ [](\A n \in {0 - MaxBelow, 0, Len(LEVELS) + 1, 999} :
          LET w == setLevel(World(TRUE), n)
          IN  /\ w.gs = [gameState EXCEPT !.level = n]
              /\ w.store = store
              /\ w.log = << [type |-> LEVEL_CHANGED, data |-> << n >>] >>)
  /\ [][ lastOp'.name \in {"setLevel", "nextLevel"} =>
           LET n == IF lastOp'.name = "setLevel" THEN lastOp'.arg
                    ELSE gameState.level + 1
           IN  /\ gameState' = [gameState EXCEPT !.level = n]
               /\ store' = store
               /\ emitted' = << [type |-> LEVEL_CHANGED, data |-> << n >>] >> ]_vars

\* nextLevel() has taken an ended run with a score of 10 to level 3
C33_Witness ==
  /\ lastOp.name = "nextLevel"
  /\ gameState.level = 3
  /\ gameState.score = 10
  /\ gameState.hasGameEnded
  /\ emitted = << [type |-> LEVEL_CHANGED, data |-> << 3 >>] >>


----------------------------------------------------------------------------
(* Further properties of the scene, checked under SceneSpec *)

\* the handlers of a kind registered for an event
HandlersOf(event, kind) == SelectSeq(listeners[event], LAMBDA h : h.kind = kind)

\* C35: while a GameScene runs, whatever the number of runs before it, the
\* bus holds exactly one checkLevelAdvancement handler for score-changed and
\* the HUD handlers of this run only.
C35_SubscribersDoNotGrow ==
  scene = "GameScene" =>
    /\ Len(HandlersOf(SCORE_CHANGED, "checkLevel")) = 1
    /\ HandlersOf(SCORE_CHANGED, "hudScore") = << [kind |-> "hudScore", id |-> Len(huds)] >>
    /\ HandlersOf(LEVEL_CHANGED, "hudLevel") = << [kind |-> "hudLevel", id |-> Len(huds)] >>

\* C36: in a run the transition to the GameOverScene is scheduled once,
\* however many obstacles overlap the avatar and on however many steps.
C36_TransitionScheduledOnce == DelayedPending <= 1


----------------------------------------------------------------------------
(* Further properties of the stored best score, checked under StoreSpec *)

\* C37 as stated: when a score-changed handler runs, the best score is at
\* least the score of the payload and the store holds the best score.
C37_StoredEqualsBestAtScoreChanged ==
  [][ lastOp'.name \in {"addScore", "updateScore", "setScore"} =>
        /\ Len(called') = 1
        /\ called'[1].bestScore >= called'[1].data[1]
        /\ called'[1].store = << toString(called'[1].bestScore) >> ]_vars

\* C37: when a score-changed handler runs in addScore or setScore, the
\* payload is the new score, the best score is final and at least that
\* score, and the store is final too: it reads back as the best score
\* (nothing stored reading as 0), and it holds the decimal string of the
\* best score when the operation raised it.
C37_BestScoreSettledAtScoreChanged ==
  [][ lastOp'.name \in {"addScore", "updateScore", "setScore"} =>
        /\ Len(called') = 1
        /\ LET seen == called'[1]
           IN  /\ seen.data = << gameState'.score >>
               /\ seen.bestScore >= seen.data[1]
               /\ seen.bestScore = gameState'.bestScoreValue
               /\ seen.store = store'
               /\ LoadedBestScore(seen.store) = seen.bestScore
               /\ gameState'.bestScoreValue > gameState.bestScoreValue =>
                    seen.store = << toString(seen.bestScore) >> ]_vars

\* addScore(10) raised the best score over a stored "-5": the handler saw
\* the best score 10 and its stored copy
C37_Witness ==
  /\ lastOp = Op("addScore", 10, 0)
  /\ Len(called) = 1
  /\ called[1].data = << 10 >>
  /\ called[1].bestScore = 10
  /\ called[1].store = << toString(10) >>


C39_NewBestOnlyWhenBeaten ==
  scene = "GameOverScene" =>
    (bestScoreLabel(gameState) = << "NEW BEST SCORE!" >>
       <=> gameState.score > bestBeforeRun)


----------------------------------------------------------------------------
(* FallSpec: one run of GameScene, from the end of its create() to the      *)
(* change to GameOverScene, in which the pause key is never pressed, with   *)
(* one obstacle or coin followed from any moment of its life until it is    *)
(* removed.  The game loop steps the arcade world, updates the groups and   *)
(* advances the tweens in every frame of a running scene, hence the         *)
(* fairness of these three actions.                                         *)

\* the first GameScene.create has returned
FallInit ==
  LET w == create([EmptyWorld(TRUE) EXCEPT
                     !.gs = initialize(newGameState(EmptyWorld(TRUE)), 1).gs], 1)
  IN  /\ gameState = w.gs
      /\ store = w.store
      /\ listeners = w.listeners
      /\ huds = w.huds
      /\ timers = w.timers
      /\ coins = w.coins
      /\ obstacles = << >>
      /\ physicsPaused = FALSE
      /\ scene = "GameScene"
      /\ crashed = FALSE
      /\ NoHistory

\* an obstacle or coin of the running scene begins to be followed
Watch ==
  /\ InGame
  /\ watched = NoWatch
  /\ \/ \E i \in DOMAIN obstacles : watched' = [kind |-> "obstacle", index |-> i]
     \/ \E i \in DOMAIN coins : watched' = [kind |-> "coin", index |-> i]
  /\ UNCHANGED << gameState, store, listeners, huds, timers, obstacles, coins,
                  physicsPaused, scene, crashed, emitted, called, lastOp,
                  levelConfig, runGameOvers, priorGameOvers, streak,
                  streakEmits, streakFresh, bestBeforeRun >>

FallNext ==
  \/ ObstacleTimerTick
  \/ CoinTimerTick
  \/ PhysicsStep
  \/ GroupUpdate
  \/ TweenComplete
  \/ DelayedCall
  \/ Watch

FallSpec ==
  /\ FallInit
  /\ [][FallNext]_vars
  /\ WF_vars(PhysicsStep)
  /\ WF_vars(GroupUpdate)
  /\ WF_vars(TweenComplete)

\* C34: in a run that is not paused and whose frames go on, every obstacle
\* or coin is removed in the end.
C34_EntitiesEventuallyRemoved == (watched # NoWatch) ~> (watched = NoWatch)

\* the followed obstacle has fallen past the bottom bound and is still a
\* child of its group
C34_Witness ==
  /\ watched.kind = "obstacle"
  /\ OffScreen(obstacles[watched.index])
  /\ ~gameState.paused /\ ~crashed

====
